---- MODULE Spec2Model ----
(***************************************************************************)
(* Vector index lifecycle (FAISSIndexBuilder), the cosine/L2 metric        *)
(* conversion and the CloneSearcher query pipeline of the clone-detection  *)
(* package, as a state machine.                                            *)
(*                                                                         *)
(* Floating point values are fixed-point integers: a Python float f is the *)
(* integer round(f * D); a component c of a normalized float32 vector is   *)
(* round(c * S). Every arithmetic step rounds to the nearest grid point,   *)
(* which is coarser than IEEE rounding.                                    *)
(***************************************************************************)
EXTENDS Integers, Sequences, FiniteSets, TLC

\* ------------------------------------------------------------------ bounds
\* Longest batch handed to one train/add call.
MaxBatch == 2
\* Largest number of vectors an index holds (add is cut off above it).
MaxTotal == 3
\* Explicit IDs are drawn from 0..MaxId.
MaxId == 1
\* set_nprobe is called with 1..MaxProbe.
MaxProbe == 2
\* Largest number of vectors the index of a CloneSearcher holds.
MaxStored == 2
\* cosine_to_l2_threshold is tried this many grid points beyond each end of [0,1].
Margin == 20
\* The constructor is tried with dimension in 1..MaxDim and m in 1..MaxM.
MaxDim == 6
MaxM == 6
\* Threads that call into a shared index, or serve requests, at the same time.
MaxThreads == 2

\* --------------------------------------------------------- fixed point
\* Grid of Python floats (similarities, distances): f is round(f * D).
D == 25000
\* Grid of float32 vector components: c is round(c * S); S * S = K * D.
S == 5000
K == (S * S) \div D

Abs(a) == IF a < 0 THEN -a ELSE a

\* a / b rounded to the nearest integer, b > 0.
RoundDiv(a, b) == IF a >= 0 THEN (2 * a + b) \div (2 * b) ELSE -((2 * (-a) + b) \div (2 * b))

RECURSIVE FloorSqrtIn(_, _, _)
FloorSqrtIn(n, lo, hi) ==
    IF lo >= hi THEN lo
    ELSE LET mid == (lo + hi + 1) \div 2
         IN  IF mid * mid <= n THEN FloorSqrtIn(n, mid, hi) ELSE FloorSqrtIn(n, lo, mid - 1)

\* sqrt(n) rounded to the nearest integer, 0 <= n < 2^31.
RoundSqrt(n) ==
    LET r == FloorSqrtIn(n, 0, 46339)
    IN  IF n - r * r > r THEN r + 1 ELSE r

\* -------------------------------------------------------------- metric
\* A float that is not a number, held as an integer no grid point takes.
NaN == 0 - 1 - 8 * D

\* The domain check as it would be with the lower bound forgotten.
cosine_to_l2_raises_above_only(cosine_similarity) ==
    IF cosine_similarity = NaN THEN TRUE ELSE cosine_similarity > D

\* `if not 0 <= cosine_similarity <= 1: raise ValueError`; every comparison
\* with NaN is false, so NaN is rejected too.
cosine_to_l2_raises(cosine_similarity) ==
    IF cosine_similarity = NaN THEN TRUE
    ELSE ~(0 <= cosine_similarity /\ cosine_similarity <= D)

\* The conversion as it would be with the factor 2 left out: sqrt(1 - x).
cosine_to_l2_threshold_halved(cosine_similarity) ==
    RoundSqrt((D - cosine_similarity) * D)

\* np.sqrt(2 - 2 * cosine_similarity) for an accepted input.
cosine_to_l2_threshold(cosine_similarity) ==
    RoundSqrt((2 * D - 2 * cosine_similarity) * D)

\* The conversion back as it would be if the distance were not squared: 1 - d/2.
l2_to_cosine_similarity_linear(l2_distance) == D - l2_distance \div 2
\* 1 - (l2_distance ** 2) / 2, for 0 <= l2_distance; the square is taken
\* limb by limb, l2_distance = q * D + r, to stay inside 32 bits.
l2_to_cosine_similarity(l2_distance) ==
    LET q == l2_distance \div D
        r == l2_distance % D
    IN  D - (q * q * (D \div 2) + q * r + RoundDiv(r * r, 2 * D))

\* ---------------------------------------------------------- normalizer
Dot(u, v) == u[1] * v[1] + u[2] * v[2]

\* faiss.normalize_L2 on one row of caller values (small integers): the row over
\* its Euclidean norm, on the float32 grid; a zero row is left as it is.
normalize_L2(v) ==
    LET n2 == Dot(v, v)
    IN  IF n2 = 0 THEN <<0, 0>>
        ELSE LET norm == RoundSqrt(n2 * S * S)
             IN  <<RoundDiv(v[1] * S * S, norm), RoundDiv(v[2] * S * S, norm)>>

normalize_rows(vectors) == [i \in 1..Len(vectors) |-> normalize_L2(vectors[i])]

\* ------------------------------------------------------- optional values
None == [some |-> FALSE, val |-> <<>>]
Some(x) == [some |-> TRUE, val |-> x]

\* --------------------------------------------------------------- index
FLAT == "Flat"
IVF_FLAT == "IVF,Flat"
IVF_PQ == "IVF,PQ"
\* An attribute the instance does not have: load builds its instance with
\* cls.__new__ and never assigns index_type, nlist, m, nbits or nprobe, so
\* reading one of them raises AttributeError.
Unset == "unset"
IndexType == {FLAT, IVF_FLAT, IVF_PQ}

\* Constructor arguments nlist and nbits, scaled down from 4096 and 8.
nlist == 2
nbits == 1

VARIABLES
    index_type,   \* self.index_type
    nprobe,       \* self.nprobe
    index,        \* self.index: the faiss.IndexIDMap, or NoIndex for None
    is_trained,   \* self.is_trained
    file,         \* the artifact faiss.write_index left at the path
    last,         \* the last call: its name and the exception it raised
    metadata,     \* MetadataStore rows of table snippets, by id
    result,       \* the value the last call returned
    train_called, \* history: train has been called on this builder
    pc,           \* where each thread is in the call it is making
    embedder,     \* plugin_server.embedder: None, or the embedder and its maker
    embedder_lock \* plugin_server.embedder_lock: the thread holding it, or 0

vars == <<index_type, nprobe, index, is_trained, file, last, metadata, result, train_called,
          pc, embedder, embedder_lock>>

\* What a call made by a single caller outside the plugin server leaves alone.
threads == <<pc, embedder, embedder_lock>>
Threads == 1..MaxThreads
\* A thread that is in no call.
NoCall == [op |-> "idle", at |-> "idle"]
\* One caller at a time, and no request at the plugin server.
Sequential ==
    /\ pc = [t \in Threads |-> NoCall]
    /\ embedder = None
    /\ embedder_lock = 0

\* self.index = None. A created index is the IndexIDMap over the backend:
\* kind is the backend's class, is_trained and nprobe are the wrapped index's
\* own fields, ids the id_map and vecs the stored rows, in insertion order.
NoIndex == [created |-> FALSE, kind |-> "none", is_trained |-> FALSE, nprobe |-> 0,
            ids |-> <<>>, vecs |-> <<>>]

ntotal(idx) == Len(idx.ids)

\* The builder's mutable fields, and the exception a call ended with.
Builder == [index |-> index, is_trained |-> is_trained, nprobe |-> nprobe, err |-> "none"]

Raise(b, e) == [b EXCEPT !.err = e]

\* _create_index as it would be without `self.is_trained = True` for FLAT.
create_index_flag_unset(b) ==
    IF index_type = Unset THEN Raise(b, "AttributeError")
    ELSE [b EXCEPT !.index = [created |-> TRUE, kind |-> index_type,
                              is_trained |-> (index_type = FLAT),
                              nprobe |-> IF index_type = FLAT THEN 0 ELSE 1,
                              ids |-> <<>>, vecs |-> <<>>]]

\* FAISSIndexBuilder._create_index (use_gpu = False): a new empty index replaces
\* self.index; faiss gives an IVF index nprobe = 1; only FLAT sets is_trained.
create_index(b) ==
    IF index_type = Unset THEN Raise(b, "AttributeError")
    ELSE [b EXCEPT !.index = [created |-> TRUE, kind |-> index_type,
                              is_trained |-> (index_type = FLAT),
                              nprobe |-> IF index_type = FLAT THEN 0 ELSE 1,
                              ids |-> <<>>, vecs |-> <<>>],
                   !.is_trained = IF index_type = FLAT THEN TRUE ELSE b.is_trained]
\* What index.train needs: k-means throws when it gets fewer points than
\* centroids. The coarse quantizer (nlist centroids) is trained once; the PQ
\* codebooks (2^nbits centroids each) are trained by every call.
faiss_train_raises(idx, n) ==
    \/ idx.kind # FLAT /\ ~idx.is_trained /\ n < nlist
    \/ idx.kind = IVF_PQ /\ n < 2 ^ nbits

\* `if self.is_trained: ... return` (line 212).
TrainSkips_never(b) == FALSE
TrainSkips(b) == b.is_trained

\* FAISSIndexBuilder.train.
train(b, train_vectors) ==
    IF TrainSkips(b) THEN b
    ELSE LET c == IF ~b.index.created THEN create_index(b) ELSE b
             sample == normalize_rows(train_vectors)
         IN  IF faiss_train_raises(c.index, Len(sample)) THEN Raise(c, "RuntimeError")
             ELSE [c EXCEPT !.index.is_trained = TRUE, !.is_trained = TRUE]

\* np.arange(current_size, current_size + len(vectors)).
AutoIds_from_zero(current_size, n) == [i \in 1..n |-> i - 1]
AutoIds(current_size, n) == [i \in 1..n |-> current_size + i - 1]

\* index.add_with_ids on the IndexIDMap: the wrapped index refuses rows while it
\* is untrained; otherwise rows and ids are appended, whatever ids are stored.
add_with_ids(idx, rows, ids) ==
    [idx EXCEPT !.ids = idx.ids \o ids, !.vecs = idx.vecs \o rows]

\* add as it would be if it trained an untrained index on the rows it is given
\* instead of refusing them.
add_autotrain(b, vectors, ids) ==
    LET c == IF ~b.is_trained THEN train(b, vectors) ELSE b
    IN  IF c.err # "none" THEN c
        ELSE IF ~c.index.created \/ ~c.index.is_trained THEN Raise(c, "RuntimeError")
        ELSE [c EXCEPT !.index = add_with_ids(c.index, normalize_rows(vectors),
                                   IF ~ids.some THEN AutoIds(ntotal(c.index), Len(vectors))
                                   ELSE ids.val)]

\* FAISSIndexBuilder.add; ids is None or Some(sequence as long as vectors).
add(b, vectors, ids) ==
    IF ~b.is_trained THEN Raise(b, "RuntimeError")
    ELSE IF ~b.index.created THEN Raise(b, "RuntimeError")
    ELSE LET the_ids == IF ~ids.some THEN AutoIds(ntotal(b.index), Len(vectors)) ELSE ids.val
             rows == normalize_rows(vectors)
         IN  IF ~b.index.is_trained THEN Raise(b, "RuntimeError")
             ELSE [b EXCEPT !.index = add_with_ids(b.index, rows, the_ids)]

\* FAISSIndexBuilder.set_nprobe: nothing on FLAT; nothing either while self.index
\* is None, for None has no attribute nprobe.
set_nprobe(b, P) ==
    IF index_type = Unset THEN Raise(b, "AttributeError")
    ELSE IF index_type = FLAT THEN b
    ELSE IF b.index.created THEN [b EXCEPT !.index.nprobe = P, !.nprobe = P]
    ELSE b

\* FAISSIndexBuilder.load (use_gpu = False) as it would be without
\* `instance.is_trained = True`.
load_flag_unset(f) == [index |-> f, is_trained |-> FALSE, nprobe |-> 0, err |-> "none"]
\* FAISSIndexBuilder.load (use_gpu = False): the instance holds the index that
\* faiss.read_index returns, whole as faiss.write_index wrote it, and
\* is_trained = True whatever the index says; nprobe stays unassigned.
load(f) == [index |-> f, is_trained |-> TRUE, nprobe |-> 0, err |-> "none"]

\* FAISSIndexBuilder.get_stats: the builder's own attributes next to the
\* index's count; every key but the first reads a constructor attribute.
get_stats(b) ==
    IF ~b.index.created THEN [err |-> "none", ret |-> [status |-> "not_created"]]
    ELSE IF index_type = Unset THEN [err |-> "AttributeError", ret |-> <<>>]
    ELSE [err |-> "none",
          ret |-> [index_type |-> index_type,
                   num_vectors |-> ntotal(b.index),
                   is_trained |-> b.is_trained,
                   nlist |-> IF index_type # FLAT THEN Some(nlist) ELSE None,
                   nprobe |-> IF index_type # FLAT THEN Some(b.nprobe) ELSE None,
                   nbits |-> IF index_type = IVF_PQ THEN Some(nbits) ELSE None]]
\* FAISSIndexBuilder.build: exceptions of train and add leave it at once.
build(b, vectors, ids, train_vectors) ==
    LET c == create_index(b)
        train_data == IF train_vectors.some THEN train_vectors ELSE vectors
        t == IF train_data.some THEN train(c, train_data.val) ELSE c
    IN  IF t.err # "none" THEN t
        ELSE IF vectors.some THEN add(t, vectors.val, ids) ELSE t
\* ------------------------------------------------------------- inputs
\* Rows a caller hands to train and add in the lifecycle runs: a batch of k rows
\* is the first k of Rows, so the rows of one batch differ from each other.
Rows == <<(<<3, 4>>), (<<0, 2>>), (<<1, 1>>), (<<4, 3>>)>>
LifecycleBatches == {SubSeq(Rows, 1, k) : k \in 0..MaxBatch}
\* Training samples: too few rows for the clustering, up to just enough.
TrainBatches == {SubSeq(Rows, 1, k) : k \in 0..nlist}

\* Explicit ids for k rows: consecutive from some base and wrapping after MaxId,
\* so that a batch can repeat an id and two batches can share one.
IdBatches(k) == {[i \in 1..k |-> (base + i - 1) % (MaxId + 1)] : base \in 0..MaxId}
OptionalIds(k) == {None} \cup {Some(i) : i \in IdBatches(k)}
OptionalBatches == {None} \cup {Some(t) : t \in TrainBatches}

\* ------------------------------------------------------------ actions
\* The builder after a call: its fields, and the call's outcome.
Returned(b, call) ==
    /\ index' = b.index
    /\ is_trained' = b.is_trained
    /\ nprobe' = b.nprobe
    /\ last' = [call EXCEPT !.err = b.err]
    /\ result' = <<>>
    /\ UNCHANGED <<index_type, file, metadata>>

Call(op) == [op |-> op, err |-> "none"]

CreateIndex ==
    /\ Returned(create_index(Builder), Call("_create_index"))
    /\ UNCHANGED train_called
    /\ UNCHANGED threads

Train(train_vectors) ==
    /\ Returned(train(Builder, train_vectors), Call("train"))
    /\ train_called' = TRUE
    /\ UNCHANGED threads

Add(vectors, ids) ==
    /\ ntotal(index) + Len(vectors) <= MaxTotal
    /\ Returned(add(Builder, vectors, ids), [op |-> "add", err |-> "none", auto |-> ~ids.some])
    /\ UNCHANGED train_called
    /\ UNCHANGED threads

SetNprobe(P) ==
    /\ Returned(set_nprobe(Builder, P), Call("set_nprobe"))
    /\ UNCHANGED train_called
    /\ UNCHANGED threads

Build(vectors, ids, train_vectors) ==
    /\ Returned(build(Builder, vectors, ids, train_vectors), Call("build"))
    /\ train_called' = (train_called \/ train_vectors.some \/ vectors.some)
    /\ UNCHANGED threads

\* FAISSIndexBuilder.save (use_gpu = False).
Save ==
    /\ IF ~index.created
       THEN /\ last' = [op |-> "save", err |-> "RuntimeError"]
            /\ file' = file
       ELSE /\ last' = [op |-> "save", err |-> "none"]
            /\ file' = index
    /\ UNCHANGED threads
    /\ result' = <<>>
    /\ UNCHANGED <<index_type, nprobe, index, is_trained, metadata, train_called>>


\* FAISSIndexBuilder.load: the loaded instance takes the builder's place;
\* faiss.read_index raises when the path holds no index.
Load ==
    /\ IF ~file.created
       THEN /\ last' = [op |-> "load", err |-> "RuntimeError"]
            /\ UNCHANGED <<index_type, nprobe, index, is_trained, train_called>>
       ELSE /\ last' = [op |-> "load", err |-> "none"]
            /\ index' = load(file).index
            /\ is_trained' = load(file).is_trained
            /\ nprobe' = load(file).nprobe
            /\ index_type' = Unset
            /\ train_called' = FALSE
    /\ UNCHANGED threads
    /\ result' = <<>>
    /\ UNCHANGED <<file, metadata>>

GetStats ==
    /\ last' = [op |-> "get_stats", err |-> get_stats(Builder).err]
    /\ UNCHANGED threads
    /\ result' = <<get_stats(Builder).ret>>
    /\ UNCHANGED <<index_type, nprobe, index, is_trained, file, metadata, train_called>>
\* FAISSIndexBuilder.__init__ has run: no index, not trained.
Init ==
    /\ index_type \in IndexType
    /\ nprobe \in 1..MaxProbe
    /\ index = NoIndex
    /\ is_trained = FALSE
    /\ file = NoIndex
    /\ last = [op |-> "__init__", err |-> "none"]
    /\ metadata = <<>>
    /\ result = <<>>
    /\ train_called = FALSE
    /\ Sequential

Next ==
    \/ CreateIndex
    \/ \E tv \in TrainBatches : Train(tv)
    \/ \E vs \in LifecycleBatches : \E ids \in OptionalIds(Len(vs)) : Add(vs, ids)
    \/ \E P \in 1..MaxProbe : SetNprobe(P)
    \/ \E vs \in LifecycleBatches : \E ids \in OptionalIds(Len(vs)) : \E tv \in OptionalBatches :
          Build(Some(vs), ids, tv)
    \/ \E tv \in OptionalBatches : Build(None, None, tv)

Spec == Init /\ [][Next]_vars
\* ------------------------------------------------------ metadata store
\* MetadataStore rows are a function from id (the primary key) to the row.
Row(id, snippet) ==
    [id |-> id, code |-> snippet.code, file_path |-> snippet.file_path,
     start_line |-> snippet.start_line, end_line |-> snippet.end_line,
     language |-> snippet.language, function_name |-> snippet.function_name]

\* add_snippet as it would be with INSERT OR IGNORE: the first write wins.
add_snippet_or_ignore(m, snippet_id, snippet) ==
    IF snippet_id \in DOMAIN m THEN m
    ELSE [i \in DOMAIN m \cup {snippet_id} |-> IF i = snippet_id THEN Row(snippet_id, snippet) ELSE m[i]]
\* MetadataStore.add_snippet: INSERT OR REPLACE by primary key.
add_snippet(m, snippet_id, snippet) ==
    [i \in DOMAIN m \cup {snippet_id} |-> IF i = snippet_id THEN Row(snippet_id, snippet) ELSE m[i]]

RECURSIVE add_snippets_prefix(_, _, _)
\* The store after the first n statements of the executemany.
add_snippets_prefix(m, snippets, n) ==
    IF n = 0 THEN m
    ELSE add_snippet(add_snippets_prefix(m, snippets, n - 1), snippets[n].id, snippets[n].snippet)

\* MetadataStore.add_snippets_batch: executemany of INSERT OR REPLACE over the
\* (snippet_id, snippet) pairs, in list order, in one transaction.
add_snippets_batch(m, snippets) == add_snippets_prefix(m, snippets, Len(snippets))

\* MetadataStore.get_snippet: the row WHERE id = ?, or None.
get_snippet(m, snippet_id) ==
    IF snippet_id \in DOMAIN m THEN Some(m[snippet_id]) ELSE None

\* MetadataStore.count: SELECT COUNT(*).
count(m) == Cardinality(DOMAIN m)
Min(A) == CHOOSE a \in A : \A b \in A : a <= b

RECURSIVE Ascending(_)
Ascending(A) == IF A = {} THEN <<>> ELSE <<Min(A)>> \o Ascending(A \ {Min(A)})

Range(f) == {f[i] : i \in DOMAIN f}

RECURSIVE get_snippets_per_occurrence(_, _)
\* get_snippets as it would be as a loop of get_snippet over the list: one row
\* per occurrence of an id.
get_snippets_per_occurrence(m, snippet_ids) ==
    IF Len(snippet_ids) = 0 THEN <<>>
    ELSE LET rest == get_snippets_per_occurrence(m, Tail(snippet_ids))
         IN  IF Head(snippet_ids) \in DOMAIN m THEN <<m[Head(snippet_ids)]>> \o rest ELSE rest
\* MetadataStore.get_snippets: the rows WHERE id IN (...), in rowid order.
get_snippets(m, snippet_ids) ==
    IF Len(snippet_ids) = 0 THEN <<>>
    ELSE LET found == Ascending(Range(snippet_ids) \cap DOMAIN m)
         IN  [i \in 1..Len(found) |-> m[found[i]]]

\* get_snippet_by_location as it would be with `start_line < ?`: one off at the
\* first line of a snippet.
get_snippet_by_location_strict(m, file_path, line_number) ==
    LET hit == {i \in DOMAIN m : /\ m[i].file_path = file_path
                                 /\ m[i].start_line < line_number
                                 /\ m[i].end_line >= line_number}
    IN  IF hit = {} THEN None ELSE Some(m[Min(hit)])
\* MetadataStore.get_snippet_by_location: fetchone() of the rows WHERE
\* file_path = ? AND start_line <= ? AND end_line >= ?, SQLite's first row being
\* the one of lowest rowid; None when there is none.
get_snippet_by_location(m, file_path, line_number) ==
    LET hit == {i \in DOMAIN m : /\ m[i].file_path = file_path
                                 /\ m[i].start_line <= line_number
                                 /\ m[i].end_line >= line_number}
    IN  IF hit = {} THEN None ELSE Some(m[Min(hit)])

\* ------------------------------------------------------------ embedder
\* GraphCodeBERTEmbedder.embed_single: a fixed function of the text. The texts
\* are "a", "b", "c" and their embeddings are rows of different lengths.
Codes == {"a", "b", "c"}
embed_single(code) ==
    CASE code = "a" -> <<2, 0>>
      [] code = "b" -> <<4, 3>>
      [] OTHER -> <<0, 1>>

embed_batch(codes) == [i \in 1..Len(codes) |-> embed_single(codes[i])]

\* --------------------------------------------------------------- search
\* Squared L2 distance of two stored-grid rows, as the float faiss reports.
L2sqr(x, y) ==
    RoundDiv((x[1] - y[1]) * (x[1] - y[1]) + (x[2] - y[2]) * (x[2] - y[2]), K)

RECURSIVE range_scan(_, _, _, _)
range_scan(idx, q, radius, i) ==
    IF i > ntotal(idx) THEN <<>>
    ELSE LET dis == L2sqr(q, idx.vecs[i])
             rest == range_scan(idx, q, radius, i + 1)
         IN  IF dis < radius THEN <<[id |-> idx.ids[i], dis |-> dis]>> \o rest ELSE rest

\* index.range_search(query, radius) on IndexIDMap over IndexFlatL2, one query:
\* the stored rows whose squared L2 distance is below radius, in storage order,
\* each with that squared distance.
range_search(idx, q, radius) == range_scan(idx, q, radius, 1)

\* `similarity >= 0.9999`.
IsSelfMatch(similarity) == similarity * 10000 >= 9999 * D

CloneMatch(row, similarity) ==
    [snippet_id |-> row.id, file_path |-> row.file_path, start_line |-> row.start_line,
     end_line |-> row.end_line, language |-> row.language,
     function_name |-> row.function_name, similarity |-> similarity, code |-> row.code]

RECURSIVE hydrate_loop_break(_, _, _, _)
\* The hydration loop as it would be with `break` in place of `continue` on a
\* hit without metadata.
hydrate_loop_break(metadata_map, hits, exclude_self, i) ==
    IF i > Len(hits) THEN <<>>
    ELSE IF hits[i].id \notin DOMAIN metadata_map THEN <<>>
    ELSE LET rest == hydrate_loop_break(metadata_map, hits, exclude_self, i + 1)
         IN  IF exclude_self /\ IsSelfMatch(hits[i].similarity) THEN rest
             ELSE <<CloneMatch(metadata_map[hits[i].id], hits[i].similarity)>> \o rest
RECURSIVE hydrate_loop(_, _, _, _)
hydrate_loop(metadata_map, hits, exclude_self, i) ==
    IF i > Len(hits) THEN <<>>
    ELSE LET rest == hydrate_loop(metadata_map, hits, exclude_self, i + 1)
         IN  IF hits[i].id \notin DOMAIN metadata_map THEN rest
             ELSE IF exclude_self /\ IsSelfMatch(hits[i].similarity) THEN rest
             ELSE <<CloneMatch(metadata_map[hits[i].id], hits[i].similarity)>> \o rest

\* CloneSearcher._hydrate_results; hits are the zipped (snippet_id, similarity).
hydrate_results(m, hits, exclude_self) ==
    IF Len(hits) = 0 THEN <<>>
    ELSE LET metadata_list == get_snippets(m, [i \in 1..Len(hits) |-> hits[i].id])
             metadata_map == [k \in {metadata_list[i].id : i \in 1..Len(metadata_list)} |-> m[k]]
         IN  hydrate_loop(metadata_map, hits, exclude_self, 1)

\* Where a stable descending sort puts x in a sorted list: after every element
\* that is not smaller.
InsertDesc(sorted, x) ==
    LET n == Cardinality({i \in 1..Len(sorted) : sorted[i].similarity >= x.similarity})
    IN  SubSeq(sorted, 1, n) \o <<x>> \o SubSeq(sorted, n + 1, Len(sorted))

RECURSIVE sort_prefix(_, _)
sort_prefix(clones, n) ==
    IF n = 0 THEN <<>> ELSE InsertDesc(sort_prefix(clones, n - 1), clones[n])

\* The list as it would be returned if the sort were left out.
sort_by_similarity_omitted(clones) == clones
\* clones.sort(key=lambda x: x.similarity, reverse=True): stable.
sort_by_similarity(clones) == sort_prefix(clones, Len(clones))

\* clones[:k] of Python.
SliceTo(clones, k) ==
    IF k >= 0 THEN SubSeq(clones, 1, IF k < Len(clones) THEN k ELSE Len(clones))
    ELSE SubSeq(clones, 1, IF Len(clones) + k > 0 THEN Len(clones) + k ELSE 0)

\* Steps 4 and 5 of find_clones: range_search with the converted threshold, every
\* distance it reports converted with l2_to_cosine_similarity.
search_hits(idx, query_embedding, l2_threshold) ==
    LET found == range_search(idx, query_embedding, l2_threshold)
    IN  [i \in 1..Len(found) |->
            [id |-> found[i].id, similarity |-> l2_to_cosine_similarity(found[i].dis)]]

\* How a query method ends: the list it returns or the exception it raises, with
\* the number of calls it made to the embedder and to index.range_search.
Returns(value) == [err |-> "none", ret |-> value, embeds |-> 0, searches |-> 0]
Raises(e) == [err |-> e, ret |-> <<>>, embeds |-> 0, searches |-> 0]
Called(r, embeds, searches) == [r EXCEPT !.embeds = embeds, !.searches = searches]

\* CloneSearcher.find_clones; max_results is None or Some(k).
find_clones(idx, m, query_code, similarity_threshold, max_results, exclude_self) ==
    LET query_embedding == normalize_L2(embed_single(query_code))
    IN  IF cosine_to_l2_raises(similarity_threshold) THEN Called(Raises("ValueError"), 1, 0)
        ELSE LET l2_threshold == cosine_to_l2_threshold(similarity_threshold)
                 hits == search_hits(idx, query_embedding, l2_threshold)
                 clones == sort_by_similarity(hydrate_results(m, hits, exclude_self))
             IN  IF max_results.some /\ max_results.val # 0
                 THEN Called(Returns(SliceTo(clones, max_results.val)), 1, 1)
                 ELSE Called(Returns(clones), 1, 1)

\* find_clones_by_location as it would be if it did not pass its threshold on,
\* leaving find_clones with its default 0.95.
find_clones_by_location_default(idx, m, file_path, line_number, similarity_threshold, max_results) ==
    LET snippet_metadata == get_snippet_by_location(m, file_path, line_number)
    IN  IF ~snippet_metadata.some THEN Returns(<<>>)
        ELSE find_clones(idx, m, snippet_metadata.val.code, (95 * D) \div 100, max_results, TRUE)

\* find_clones_by_location as it would be if it did not pass max_results on.
find_clones_by_location_unlimited(idx, m, file_path, line_number, similarity_threshold, max_results) ==
    LET snippet_metadata == get_snippet_by_location(m, file_path, line_number)
    IN  IF ~snippet_metadata.some THEN Returns(<<>>)
        ELSE find_clones(idx, m, snippet_metadata.val.code, similarity_threshold, None, TRUE)

\* CloneSearcher.find_clones_by_location.
find_clones_by_location(idx, m, file_path, line_number, similarity_threshold, max_results) ==
    LET snippet_metadata == get_snippet_by_location(m, file_path, line_number)
    IN  IF ~snippet_metadata.some THEN Returns(<<>>)
        ELSE find_clones(idx, m, snippet_metadata.val.code, similarity_threshold, max_results, TRUE)

\* find_clones_batch as it would be if every query took the slice lims[0]:lims[1],
\* the hits of the first query, as the single-query code does.
find_clones_batch_first_slice(idx, m, query_codes, similarity_threshold) ==
    IF Len(query_codes) = 0 THEN Returns(<<>>)
    ELSE LET query_embeddings == normalize_rows(embed_batch(query_codes))
         IN  IF cosine_to_l2_raises(similarity_threshold) THEN Called(Raises("ValueError"), 1, 0)
             ELSE LET l2_threshold == cosine_to_l2_threshold(similarity_threshold)
                  IN  Called(Returns([i \in 1..Len(query_codes) |->
                         sort_by_similarity(hydrate_results(m,
                             search_hits(idx, query_embeddings[1], l2_threshold), TRUE))]), 1, 1)
\* CloneSearcher.find_clones_batch.
find_clones_batch(idx, m, query_codes, similarity_threshold) ==
    IF Len(query_codes) = 0 THEN Returns(<<>>)
    ELSE LET query_embeddings == normalize_rows(embed_batch(query_codes))
         IN  IF cosine_to_l2_raises(similarity_threshold) THEN Called(Raises("ValueError"), 1, 0)
             ELSE LET l2_threshold == cosine_to_l2_threshold(similarity_threshold)
                  IN  Called(Returns([i \in 1..Len(query_codes) |->
                         sort_by_similarity(hydrate_results(m,
                             search_hits(idx, query_embeddings[i], l2_threshold), TRUE))]), 1, 1)
\* ------------------------------------------------------ query actions
\* The snippet the ingestion pipeline records under an id; snippet 2 is a copy
\* of snippet 0 in another file.
SnippetFor(id) ==
    CASE id = 0 -> [code |-> "a", file_path |-> "a.py", start_line |-> 1, end_line |-> 1,
                    language |-> "python", function_name |-> "f0"]
      [] id = 1 -> [code |-> "b", file_path |-> "a.py", start_line |-> 2, end_line |-> 3,
                    language |-> "python", function_name |-> "f1"]
      [] id = 2 -> [code |-> "a", file_path |-> "b.py", start_line |-> 1, end_line |-> 2,
                    language |-> "python", function_name |-> "f2"]
      [] OTHER  -> [code |-> "c", file_path |-> "b.py", start_line |-> 3, end_line |-> 3,
                    language |-> "python", function_name |-> "f3"]

\* The ids of the snippets of the code base.
SnippetIds == 0..MaxStored

Files == {"a.py", "b.py"}
Lines == 1..3
CodeLists == UNION {[1..k -> Codes] : k \in 0..MaxBatch}

\* Thresholds a caller passes: 0, 0.9 and 1, values below and above [0,1], NaN.
Thresholds == {0 - D \div 10, 0, (9 * D) \div 10, D, D + D \div 10, NaN}
MaxResults == {None, Some(0), Some(1)}

QueryOps == {"find_clones", "find_clones_batch", "find_clones_by_location"}

\* No returned match list is waiting to be taken by the caller.
Idle == last.op \notin QueryOps

\* builder.add(embedder.embed_batch([snippet.code]), [snippet_id]): ingestion of
\* one snippet under its id, in whatever order the caller ingests them.
SearchAdd(snippet_id) ==
    /\ ntotal(index) < MaxStored
    /\ Add(embed_batch(<<SnippetFor(snippet_id).code>>), Some(<<snippet_id>>))

AddSnippet(snippet_id) ==
    /\ metadata' = add_snippet(metadata, snippet_id, SnippetFor(snippet_id))
    /\ last' = [op |-> "add_snippet", err |-> "none"]
    /\ UNCHANGED threads
    /\ result' = <<>>
    /\ UNCHANGED <<index_type, nprobe, index, is_trained, file, train_called>>

Answered(op, args, r) ==
    /\ last' = [op |-> op, err |-> r.err, args |-> args,
                embeds |-> r.embeds, searches |-> r.searches]
    /\ UNCHANGED threads
    /\ result' = r.ret
    /\ UNCHANGED <<index_type, nprobe, index, is_trained, file, metadata, train_called>>

FindClones(query_code, similarity_threshold, max_results, exclude_self) ==
    Answered("find_clones",
             [query_code |-> query_code, similarity_threshold |-> similarity_threshold,
              max_results |-> max_results, exclude_self |-> exclude_self],
             find_clones(index, metadata, query_code, similarity_threshold, max_results,
                         exclude_self))

FindClonesByLocation(file_path, line_number, similarity_threshold, max_results) ==
    Answered("find_clones_by_location",
             [file_path |-> file_path, line_number |-> line_number,
              similarity_threshold |-> similarity_threshold, max_results |-> max_results],
             find_clones_by_location(index, metadata, file_path, line_number,
                                     similarity_threshold, max_results))

FindClonesBatch(query_codes, similarity_threshold) ==
    Answered("find_clones_batch",
             [query_codes |-> query_codes, similarity_threshold |-> similarity_threshold],
             find_clones_batch(index, metadata, query_codes, similarity_threshold))

\* The caller takes the returned list (or the exception) and goes on.
Forget ==
    /\ ~Idle
    /\ last' = [op |-> "idle", err |-> "none"]
    /\ UNCHANGED threads
    /\ result' = <<>>
    /\ UNCHANGED <<index_type, nprobe, index, is_trained, file, metadata, train_called>>

\* FAISSIndexBuilder(index_type=FLAT).build() has run, the MetadataStore is new
\* and CloneSearcher(index, embedder, metadata_store) is constructed.
SearchInit ==
    /\ index_type = FLAT
    /\ nprobe = 1
    /\ index = [created |-> TRUE, kind |-> FLAT, is_trained |-> TRUE, nprobe |-> 0,
                ids |-> <<>>, vecs |-> <<>>]
    /\ is_trained = TRUE
    /\ file = NoIndex
    /\ last = [op |-> "build", err |-> "none"]
    /\ metadata = <<>>
    /\ result = <<>>
    /\ train_called = FALSE
    /\ Sequential

\* A call is made when the caller holds no untaken result.
SearchNext ==
    \/ Idle /\ \E snippet_id \in SnippetIds : SearchAdd(snippet_id)
    \/ Idle /\ \E snippet_id \in SnippetIds : AddSnippet(snippet_id)
    \/ Idle /\ \E c \in Codes, t \in Thresholds, k \in MaxResults, x \in BOOLEAN :
                  FindClones(c, t, k, x)
    \/ Idle /\ \E f \in Files, n \in Lines, t \in Thresholds, k \in MaxResults :
                  FindClonesByLocation(f, n, t, k)
    \/ Idle /\ \E cs \in CodeLists, t \in Thresholds : FindClonesBatch(cs, t)
    \/ Forget

SpecSearch == SearchInit /\ [][SearchNext]_vars

\* ------------------------------------------------------ store actions
\* The records and (snippet_id, snippet) pairs a caller writes to the store.
StoreSnippets == {SnippetFor(0), SnippetFor(1)}
StorePairs == {[id |-> i, snippet |-> s] : i \in 0..MaxId, s \in StoreSnippets}
StoreBatches == UNION {[1..k -> StorePairs] : k \in 0..MaxBatch}

\* A call on the MetadataStore has returned; the builder is not involved.
StoreReturned(op, args, value) ==
    /\ last' = [op |-> op, err |-> "none", args |-> args]
    /\ UNCHANGED threads
    /\ result' = value
    /\ UNCHANGED <<index_type, nprobe, index, is_trained, file, train_called>>

StoreAddSnippet(snippet_id, snippet) ==
    /\ metadata' = add_snippet(metadata, snippet_id, snippet)
    /\ StoreReturned("add_snippet", <<[id |-> snippet_id, snippet |-> snippet]>>, <<>>)

StoreAddSnippetsBatch(snippets) ==
    /\ metadata' = add_snippets_batch(metadata, snippets)
    /\ StoreReturned("add_snippets_batch", snippets, <<>>)

StoreGetSnippet(snippet_id) ==
    /\ StoreReturned("get_snippet", snippet_id, <<get_snippet(metadata, snippet_id)>>)
    /\ UNCHANGED metadata

StoreCount ==
    /\ StoreReturned("count", <<>>, <<count(metadata)>>)
    /\ UNCHANGED metadata

StoreGetSnippetByLocation(file_path, line_number) ==
    /\ StoreReturned("get_snippet_by_location",
                     [file_path |-> file_path, line_number |-> line_number],
                     <<get_snippet_by_location(metadata, file_path, line_number)>>)
    /\ UNCHANGED metadata

\* The id lists a caller asks for: ids with and without a record, repeated or not.
StoreIdLists == UNION {[1..k -> 0..MaxId] : k \in 0..MaxBatch}

StoreGetSnippets(snippet_ids) ==
    /\ StoreReturned("get_snippets", snippet_ids, get_snippets(metadata, snippet_ids))
    /\ UNCHANGED metadata
\* MetadataStore(db_path) on a new database: the tables are created, empty.
StoreInit ==
    /\ index_type = FLAT
    /\ nprobe = 1
    /\ index = NoIndex
    /\ is_trained = FALSE
    /\ file = NoIndex
    /\ last = [op |-> "connect", err |-> "none"]
    /\ metadata = <<>>
    /\ result = <<>>
    /\ train_called = FALSE
    /\ Sequential

StoreNext ==
    \/ \E p \in StorePairs : StoreAddSnippet(p.id, p.snippet)
    \/ \E snippets \in StoreBatches : StoreAddSnippetsBatch(snippets)
    \/ \E snippet_id \in 0..MaxId : StoreGetSnippet(snippet_id)
    \/ \E snippet_ids \in StoreIdLists : StoreGetSnippets(snippet_ids)
    \/ StoreCount
    \/ \E f \in Files, n \in Lines : StoreGetSnippetByLocation(f, n)

SpecStore == StoreInit /\ [][StoreNext]_vars
\* ------------------------------------------------- metric conversions
MetricInputs == ((0 - Margin)..(D + Margin)) \cup {NaN}

CosineToL2(cosine_similarity) ==
    /\ last' = [op |-> "cosine_to_l2_threshold",
                err |-> IF cosine_to_l2_raises(cosine_similarity) THEN "ValueError" ELSE "none",
                args |-> cosine_similarity]
    /\ UNCHANGED threads
    /\ result' = IF cosine_to_l2_raises(cosine_similarity) THEN <<>>
                 ELSE <<cosine_to_l2_threshold(cosine_similarity)>>
    /\ UNCHANGED <<index_type, nprobe, index, is_trained, file, metadata, train_called>>

\* l2_to_cosine_similarity of the distance the conversion just returned.
L2ToCosine ==
    /\ last.op = "cosine_to_l2_threshold"
    /\ last.err = "none"
    /\ last' = [op |-> "l2_to_cosine_similarity", err |-> "none", args |-> last.args]
    /\ UNCHANGED threads
    /\ result' = <<result[1], l2_to_cosine_similarity(result[1])>>
    /\ UNCHANGED <<index_type, nprobe, index, is_trained, file, metadata, train_called>>

MetricInit ==
    /\ index_type = FLAT
    /\ nprobe = 1
    /\ index = NoIndex
    /\ is_trained = FALSE
    /\ file = NoIndex
    /\ last = [op |-> "import", err |-> "none"]
    /\ metadata = <<>>
    /\ result = <<>>
    /\ train_called = FALSE
    /\ Sequential

\* One conversion, then its inverse on what it returned.
MetricNext ==
    \/ last.op = "import" /\ \E x \in MetricInputs : CosineToL2(x)
    \/ L2ToCosine

SpecMetric == MetricInit /\ [][MetricNext]_vars
\* save, load and get_stats join the lifecycle calls on single rows with
\* sequential ids.
PersistNext ==
    \/ CreateIndex
    \/ \E tv \in TrainBatches : Train(tv)
    \/ Add(SubSeq(Rows, 1, 1), None)
    \/ \E P \in 1..MaxProbe : SetNprobe(P)
    \/ \E tv \in OptionalBatches : Build(None, None, tv)
    \/ Save
    \/ Load
    \/ GetStats

SpecPersist == Init /\ [][PersistNext]_vars


\* --------------------------------------------------------- construction
\* `if dimension % m != 0: raise ValueError` at the end of __init__: the test
\* does not look at index_type.
init_raises(dimension, type, m) == dimension % m # 0

\* IndexConfig.validate_m_divides_dimension: dimension is declared before m, so
\* it is in values whenever it was valid itself.
validate_m_divides_dimension(v, values) == values.dimension % v # 0

Dimensions == 1..MaxDim
SubVectors == 1..MaxM

\* FAISSIndexBuilder(dimension, index_type, m=m, nprobe=P): the caller gets the
\* builder, or the ValueError and no builder.
Construct(dimension, type, m, P) ==
    /\ IF init_raises(dimension, type, m)
       THEN /\ last' = [op |-> "__init__", err |-> "ValueError",
                        args |-> [dimension |-> dimension, index_type |-> type, m |-> m]]
            /\ UNCHANGED <<index_type, nprobe, index, is_trained>>
       ELSE /\ last' = [op |-> "__init__", err |-> "none",
                        args |-> [dimension |-> dimension, index_type |-> type, m |-> m]]
            /\ index_type' = type
            /\ nprobe' = P
            /\ index' = NoIndex
            /\ is_trained' = FALSE
    /\ UNCHANGED threads
    /\ result' = <<>>
    /\ train_called' = FALSE
    /\ UNCHANGED <<file, metadata>>

\* IndexConfig(type=type, dimension=dimension, m=m).
ValidateIndexConfig(type, dimension, m) ==
    /\ last' = [op |-> "IndexConfig",
                err |-> IF validate_m_divides_dimension(m, [dimension |-> dimension])
                        THEN "ValueError" ELSE "none",
                args |-> [dimension |-> dimension, index_type |-> type, m |-> m]]
    /\ UNCHANGED threads
    /\ result' = <<>>
    /\ UNCHANGED <<index_type, nprobe, index, is_trained, file, metadata, train_called>>

\* No builder has been constructed yet.
ConstructInit ==
    /\ index_type = Unset
    /\ nprobe = 0
    /\ index = NoIndex
    /\ is_trained = FALSE
    /\ file = NoIndex
    /\ last = [op |-> "none", err |-> "none"]
    /\ metadata = <<>>
    /\ result = <<>>
    /\ train_called = FALSE
    /\ Sequential

ConstructNext ==
    \/ \E dimension \in Dimensions : \E type \in IndexType : \E m \in SubVectors :
          \E P \in 1..MaxProbe : Construct(dimension, type, m, P)
    \/ \E dimension \in Dimensions : \E type \in IndexType : \E m \in SubVectors :
          ValidateIndexConfig(type, dimension, m)

SpecConstruct == ConstructInit /\ [][ConstructNext]_vars
\* ------------------------------------------------------- caller buffers
\* numpy arrays as objects: a heap is the sequence of the arrays alive, an array
\* is named by its place in it, and the caller's array is the first.
\* ndarray.astype(np.float32, copy=False): the array itself when it is float32.
astype_no_copy(heap, ref) == [heap |-> heap, ref |-> ref]
\* ndarray.astype(np.float32): always a newly allocated array.
astype(heap, ref) == [heap |-> Append(heap, heap[ref]), ref |-> Len(heap) + 1]

\* faiss.normalize_L2(x): rewrites the rows of x in place.
normalize_L2_in_place(heap, ref) == [heap EXCEPT ![ref] = normalize_rows(heap[ref])]

\* train, lines 212-223: the arrays after the call.
train_buffers(b, heap, ref) ==
    IF TrainSkips(b) THEN heap
    ELSE LET train_vectors == astype(heap, ref)
         IN  normalize_L2_in_place(train_vectors.heap, train_vectors.ref)

\* add, lines 245-261: astype and then copy(), two new arrays.
add_buffers(b, heap, ref) ==
    IF ~b.is_trained \/ ~b.index.created THEN heap
    ELSE LET converted == astype(heap, ref)
             vectors == astype(converted.heap, converted.ref)
         IN  normalize_L2_in_place(vectors.heap, vectors.ref)

\* find_clones and find_clones_batch: reshape gives a view of the embedder's
\* array, astype the array that is normalized.
query_buffers(heap, ref) ==
    LET query_embedding == astype(heap, ref)
    IN  normalize_L2_in_place(query_embedding.heap, query_embedding.ref)

\* A call that was handed the array `vectors`, and the arrays after it.
BufferCall(op, vectors, heap) ==
    [op |-> op, err |-> "none", args |-> vectors, buffers |-> heap]

BufTrain(train_vectors) ==
    /\ Returned(train(Builder, train_vectors),
                BufferCall("train", train_vectors, train_buffers(Builder, <<train_vectors>>, 1)))
    /\ train_called' = TRUE
    /\ UNCHANGED threads

BufAdd(vectors, ids) ==
    /\ ntotal(index) + Len(vectors) <= MaxTotal
    /\ Returned(add(Builder, vectors, ids),
                BufferCall("add", vectors, add_buffers(Builder, <<vectors>>, 1)))
    /\ UNCHANGED train_called
    /\ UNCHANGED threads

\* find_clones on a searcher that holds the builder's FLAT index.
BufFindClones(query_code, similarity_threshold) ==
    /\ index.created /\ index.kind = FLAT
    /\ last' = [BufferCall("find_clones", <<embed_single(query_code)>>,
                           query_buffers(<<(<<embed_single(query_code)>>)>>, 1))
                   EXCEPT !.err = find_clones(index, metadata, query_code,
                                              similarity_threshold, None, FALSE).err]
    /\ UNCHANGED threads
    /\ result' = find_clones(index, metadata, query_code, similarity_threshold, None, FALSE).ret
    /\ UNCHANGED <<index_type, nprobe, index, is_trained, file, metadata, train_called>>

BufFindClonesBatch(query_codes, similarity_threshold) ==
    /\ index.created /\ index.kind = FLAT
    /\ Len(query_codes) > 0
    /\ last' = [BufferCall("find_clones_batch", embed_batch(query_codes),
                           query_buffers(<<embed_batch(query_codes)>>, 1))
                   EXCEPT !.err = find_clones_batch(index, metadata, query_codes,
                                                    similarity_threshold).err]
    /\ UNCHANGED threads
    /\ result' = find_clones_batch(index, metadata, query_codes, similarity_threshold).ret
    /\ UNCHANGED <<index_type, nprobe, index, is_trained, file, metadata, train_called>>

\* A threshold the queries accept and one they refuse.
BufThresholds == {(9 * D) \div 10, D + D \div 10}

BuffersNext ==
    \/ CreateIndex
    \/ \E tv \in TrainBatches : BufTrain(tv)
    \/ \E vs \in LifecycleBatches : BufAdd(vs, None)
    \/ \E code \in Codes : \E t \in BufThresholds : BufFindClones(code, t)
    \/ \E codes \in CodeLists : \E t \in BufThresholds : BufFindClonesBatch(codes, t)

SpecBuffers == Init /\ [][BuffersNext]_vars
\* -------------------------------------------------------- plugin server
\* health_check and detect_clones, each request on a thread of its own; the
\* dependencies were importable (DEPENDENCIES_AVAILABLE), or neither handler
\* gets as far as the embedder.
Handlers == {"health_check", "detect_clones"}

\* What a handler returns once it is past the embedder: health_check says
\* healthy; detect_clones goes on to parse, embed and search, and returns the
\* clones or, from its `except Exception`, the error.
Outcomes(handler) == IF handler = "health_check" THEN {"healthy"} ELSE {"clones", "error"}

\* The handlers as they would be without the second test under the lock.
double_check_omitted(e) == TRUE
\* `if embedder is None:` after acquiring the lock.
double_check(e) == e = None

\* The handler returns and its thread is free for the next request.
Respond(t, status) ==
    /\ pc' = [pc EXCEPT ![t] = NoCall]
    /\ last' = [op |-> pc[t].op, err |-> "none", status |-> status, thread |-> t]
    /\ result' = <<>>
    /\ UNCHANGED <<index_type, nprobe, index, is_trained, file, metadata, train_called>>

\* A request arrives and its handler makes the first, unlocked test.
FirstCheck(t, handler) ==
    /\ pc[t] = NoCall
    /\ IF embedder = None
       THEN /\ pc' = [pc EXCEPT ![t] = [op |-> handler, at |-> "acquire"]]
            /\ UNCHANGED <<index_type, nprobe, index, is_trained, file, last, metadata,
                           result, train_called>>
       ELSE \E status \in Outcomes(handler) :
               /\ last' = [op |-> handler, err |-> "none", status |-> status, thread |-> t]
               /\ result' = <<>>
               /\ UNCHANGED <<index_type, nprobe, index, is_trained, file, metadata,
                              train_called, pc>>
    /\ UNCHANGED <<embedder, embedder_lock>>

\* `with embedder_lock:` blocks until the lock is free.
Acquire(t) ==
    /\ pc[t].at = "acquire"
    /\ embedder_lock = 0
    /\ embedder_lock' = t
    /\ pc' = [pc EXCEPT ![t].at = "recheck"]
    /\ UNCHANGED <<index_type, nprobe, index, is_trained, file, last, metadata, result,
                   train_called, embedder>>

\* The test under the lock: construct, or leave the with block.
Recheck(t) ==
    /\ pc[t].at = "recheck"
    /\ pc' = [pc EXCEPT ![t].at = IF double_check(embedder) THEN "construct" ELSE "release"]
    /\ UNCHANGED <<index_type, nprobe, index, is_trained, file, last, metadata, result,
                   train_called, embedder, embedder_lock>>

\* GraphCodeBERTEmbedder(...) returns the embedder, or raises (the model is not
\* downloaded): health_check then returns degraded, and detect_clones lands in
\* its `except Exception`.
ConstructEmbedder(t, ok) ==
    /\ pc[t].at = "construct"
    /\ embedder' = IF ok THEN Some(t) ELSE embedder
    /\ pc' = [pc EXCEPT ![t].at = IF ok THEN "release" ELSE "failed"]
    /\ UNCHANGED <<index_type, nprobe, index, is_trained, file, last, metadata, result,
                   train_called, embedder_lock>>

\* Leaving the with block, by return, exception or falling through, releases
\* the lock; the handler then runs to its response.
Release(t) ==
    /\ pc[t].at \in {"release", "failed"}
    /\ embedder_lock' = 0
    /\ \E status \in IF pc[t].at = "release" THEN Outcomes(pc[t].op)
                     ELSE IF pc[t].op = "health_check" THEN {"degraded"} ELSE {"error"} :
          Respond(t, status)
    /\ UNCHANGED embedder

\* The server has started: no embedder, the lock free, no request in progress.
ServerInit ==
    /\ index_type = Unset
    /\ nprobe = 0
    /\ index = NoIndex
    /\ is_trained = FALSE
    /\ file = NoIndex
    /\ last = [op |-> "none", err |-> "none", status |-> "none", thread |-> 0]
    /\ metadata = <<>>
    /\ result = <<>>
    /\ train_called = FALSE
    /\ pc = [t \in Threads |-> NoCall]
    /\ embedder = None
    /\ embedder_lock = 0

ServerNext ==
    \E t \in Threads :
        \/ \E handler \in Handlers : FirstCheck(t, handler)
        \/ Acquire(t)
        \/ Recheck(t)
        \/ \E ok \in BOOLEAN : ConstructEmbedder(t, ok)
        \/ Release(t)

SpecServer == ServerInit /\ [][ServerNext]_vars
\* --------------------------------------------------------- shared index
\* Threads calling into one FAISSIndexBuilder and the searcher over its index.
\* No method takes a lock, so a call begins whenever its thread is free; faiss
\* releases the interpreter lock while it works, so calls do overlap.
Mutations == {"train", "add", "set_nprobe"}
Reads == {"range_search", "get_stats"}

SharedCalls ==
    {[op |-> "train", args |-> tv] : tv \in TrainBatches}
       \cup {[op |-> "add", args |-> SubSeq(Rows, 1, 1)]}
       \cup {[op |-> "set_nprobe", args |-> P] : P \in 1..MaxProbe}
       \cup {[op |-> "range_search", args |-> q] : q \in Range(normalize_rows(Rows))}
       \cup {[op |-> "get_stats", args |-> <<>>]}

\* The call starts and reads the builder as it is now.
Begin(t, call) ==
    /\ pc[t] = NoCall
    /\ call.op = "add" => ntotal(index) < MaxTotal
    /\ call.op = "range_search" => (index.created /\ index.kind = FLAT)
    /\ pc' = [pc EXCEPT ![t] = [op |-> call.op, at |-> "running", args |-> call.args,
                                seen |-> Builder]]
    /\ UNCHANGED <<index_type, nprobe, index, is_trained, file, last, metadata, result,
                   train_called, embedder, embedder_lock>>

\* Unsynchronized access: the call works on the builder as it is when the call
\* ends, or on what it read when it began, losing what was written in between.
Bases(t) == {Builder, pc[t].seen}

EndMutation(t) ==
    /\ pc[t].op \in Mutations
    /\ \E base \in Bases(t) :
          /\ pc[t].op = "add" => ntotal(base.index) < MaxTotal
          /\ Returned(CASE pc[t].op = "train" -> train(base, pc[t].args)
                        [] pc[t].op = "add" -> add(base, pc[t].args, None)
                        [] OTHER -> set_nprobe(base, pc[t].args),
                      Call(pc[t].op))
    /\ train_called' = (train_called \/ pc[t].op = "train")
    /\ pc' = [pc EXCEPT ![t] = NoCall]
    /\ UNCHANGED <<embedder, embedder_lock>>

EndRead(t) ==
    /\ pc[t].op \in Reads
    /\ \E base \in Bases(t) :
          result' = IF pc[t].op = "get_stats" THEN <<get_stats(base).ret>>
                    ELSE range_search(base.index, pc[t].args, 4 * D)
    /\ last' = Call(pc[t].op)
    /\ pc' = [pc EXCEPT ![t] = NoCall]
    /\ UNCHANGED <<index_type, nprobe, index, is_trained, file, metadata, train_called,
                   embedder, embedder_lock>>

SharedNext ==
    \E t \in Threads :
        \/ \E call \in SharedCalls : Begin(t, call)
        \/ EndMutation(t)
        \/ EndRead(t)

SpecShared == Init /\ [][SharedNext]_vars
\* ========================================================= properties
Clustered == index_type \in {IVF_FLAT, IVF_PQ}

\* C1: add on a clustered backend (IVF_FLAT, IVF_PQ) that has not been trained
\* raises RuntimeError and leaves the index, its count and the trained flag as
\* they were.
C1_AddBeforeTrainRefused ==
    [][(last'.op = "add" /\ Clustered /\ (~is_trained \/ ~index.is_trained))
          => /\ last'.err = "RuntimeError"
             /\ ntotal(index') = ntotal(index)
             /\ is_trained' = is_trained
             /\ index' = index]_vars

\* An add was refused on a created, untrained clustered index.
C1_Witness ==
    /\ Clustered /\ index.created /\ ~is_trained
    /\ last.op = "add" /\ last.err = "RuntimeError"

\* C2: train on a builder that is already trained raises nothing and changes
\* neither the trained flag nor the stored vectors, ids and count, whatever the
\* sample and however often it is repeated.
C2_TrainTwiceNoOp ==
    [][(last'.op = "train" /\ is_trained)
          => /\ last'.err = "none"
             /\ index' = index
             /\ is_trained' = is_trained
             /\ nprobe' = nprobe]_vars

\* train returned on a clustered index that already held vectors.
C2_Witness ==
    /\ Clustered /\ last.op = "train" /\ last.err = "none"
    /\ is_trained /\ ntotal(index) > 0

\* uncreated, created-untrained, trained, trained-and-populated.
LifecycleStage ==
    IF ~index.created THEN 0
    ELSE IF ~index.is_trained THEN 1
    ELSE IF ntotal(index) = 0 THEN 2 ELSE 3

\* C3: over every sequence of calls the lifecycle stage never moves back, a
\* trained index stays trained and the stored-vector count never decreases.
C3_ForwardOnly ==
    [][last'.op \in {"build", "train", "add", "set_nprobe", "save"}
          => /\ LifecycleStage' >= LifecycleStage
             /\ (index.is_trained => index'.is_trained)
             /\ ntotal(index') >= ntotal(index)]_vars

\* C4 as stated: on a FLAT builder every add is accepted.
C4_FlatAddAlwaysAccepted ==
    [][(index_type = FLAT /\ last'.op = "add") => last'.err = "none"]_vars

\* C4: once its index structure exists (build, _create_index or train has created
\* it), a FLAT builder is trained, and add is accepted and stores the rows, with
\* or without a call to train.
C4_FlatTrainedOnceCreated ==
    [][/\ (index_type = FLAT /\ index'.created) => (is_trained' /\ index'.is_trained)
       /\ \A vs \in LifecycleBatches : \A ids \in OptionalIds(Len(vs)) :
             (index_type = FLAT /\ index.created /\ Add(vs, ids))
                => /\ last'.err = "none"
                   /\ ntotal(index') = ntotal(index) + Len(vs)
                   /\ \A i \in 1..Len(vs) :
                         index'.vecs[ntotal(index) + i] = normalize_L2(vs[i])]_vars

\* A FLAT index took rows although train was never called.
C4_Witness ==
    /\ index_type = FLAT /\ ~train_called
    /\ last.op = "add" /\ last.err = "none" /\ ntotal(index) > 0

\* The stored ids are 0, 1, ..., ntotal - 1 in storage order.
IdsSequential(idx) == idx.ids = [i \in 1..ntotal(idx) |-> i - 1]

\* C5: a successful add with ids omitted on an index holding c vectors appends
\* the n rows in input order under the ids c, ..., c + n - 1 and makes the count
\* c + n; so an index whose ids were 0..c-1 has the ids 0..c+n-1 afterwards.
C5_SequentialIds ==
    [][\A vs \in LifecycleBatches :
          (Add(vs, None) /\ last'.err = "none")
             => /\ ntotal(index') = ntotal(index) + Len(vs)
                /\ SubSeq(index'.ids, 1, ntotal(index)) = index.ids
                /\ SubSeq(index'.vecs, 1, ntotal(index)) = index.vecs
                /\ \A i \in 1..Len(vs) :
                      /\ index'.ids[ntotal(index) + i] = ntotal(index) + i - 1
                      /\ index'.vecs[ntotal(index) + i] = normalize_L2(vs[i])
                /\ (IdsSequential(index) => IdsSequential(index'))]_vars

\* Rows were added with ids omitted to an index that already held some.
C5_Witness ==
    /\ last.op = "add" /\ last.auto /\ last.err = "none"
    /\ ntotal(index) = MaxTotal /\ IdsSequential(index)

\* C6: every stored vector has an id of its own.
C6_DistinctIds ==
    \A i, j \in 1..ntotal(index) : i # j => index.ids[i] # index.ids[j]
\* Cosine similarity of two unit rows of the stored grid, as a float.
TrueCosine(x, y) == RoundDiv(Dot(x, y), K)

\* C7: on the exact backend find_clones (nothing filtered out: exclude_self off,
\* no max_results, a metadata row for every stored id) returns exactly the stored
\* ids whose cosine similarity to the query is >= the threshold, each with that
\* cosine similarity.
C7_ExactSelection ==
    (/\ last.op = "find_clones" /\ last.err = "none"
     /\ ~last.args.exclude_self /\ ~last.args.max_results.some
     /\ \A i \in 1..ntotal(index) : index.ids[i] \in DOMAIN metadata)
       => LET q == normalize_L2(embed_single(last.args.query_code))
          IN  {<<result[i].snippet_id, result[i].similarity>> : i \in 1..Len(result)}
                 = {<<index.ids[i], TrueCosine(q, index.vecs[i])>> :
                       i \in {j \in 1..ntotal(index) :
                                 TrueCosine(q, index.vecs[j]) >= last.args.similarity_threshold}}

\* A float in [0, 1].
InUnit(x) == x # NaN /\ 0 <= x /\ x <= D

\* C8: for x in [0,1] the distance returned is sqrt(2 - 2x) (its square is
\* 2 - 2x up to the rounding of the last digit), 0.95 gives 0.316 and 0.90 gives
\* 0.447 to three places, and converting back gives x within 1e-4.
C8_RoundTrip ==
    (last.op \in {"cosine_to_l2_threshold", "l2_to_cosine_similarity"} /\ last.err = "none")
       => LET x == last.args
              d == result[1]
          IN  /\ Abs(d * d - (2 * D - 2 * x) * D) <= d
              /\ (x = (95 * D) \div 100 => Abs(1000 * d - 316 * D) <= D)
              /\ (x = (90 * D) \div 100 => Abs(1000 * d - 447 * D) <= D)
              /\ (last.op = "l2_to_cosine_similarity" => Abs(result[2] - x) * 10000 <= D)

\* 0.95 went through both conversions.
C8_Witness ==
    /\ last.op = "l2_to_cosine_similarity"
    /\ last.args = (95 * D) \div 100
    /\ Len(result) = 2

\* C9: cosine_to_l2_threshold raises ValueError exactly for the inputs outside
\* [0,1]; for the others 2 - 2x is not negative and the distance returned lies in
\* [0, sqrt(2)].
C9_DomainCheck ==
    last.op = "cosine_to_l2_threshold"
       => /\ (last.err = "ValueError") <=> ~InUnit(last.args)
          /\ last.err \in {"none", "ValueError"}
          /\ last.err = "none"
                => /\ 2 * D - 2 * last.args >= 0
                   /\ Len(result) = 1
                   /\ 0 <= result[1]
                   /\ result[1] * result[1] <= 2 * D * D + result[1]

\* An input just below 0 was refused.
C9_Witness ==
    /\ last.op = "cosine_to_l2_threshold"
    /\ last.args = 0 - 1
    /\ last.err = "ValueError"

\* C10 as stated: a query entry point called with a threshold outside [0,1]
\* raises ValueError, whatever the other arguments and the stores hold.
C10_AlwaysValidated ==
    (last.op \in QueryOps /\ ~InUnit(last.args.similarity_threshold))
       => last.err = "ValueError"

\* The call gets as far as cosine_to_l2_threshold: find_clones always, the batch
\* unless it is empty, the lookup by location unless no snippet is found there.
ReachesConversion ==
    \/ last.op = "find_clones"
    \/ last.op = "find_clones_batch" /\ Len(last.args.query_codes) > 0
    \/ /\ last.op = "find_clones_by_location"
       /\ get_snippet_by_location(metadata, last.args.file_path, last.args.line_number).some

\* C10: with a threshold outside [0,1], find_clones raises ValueError, and so do
\* find_clones_batch on a non-empty batch and find_clones_by_location on a
\* location inside a stored snippet; an empty batch and a location with no
\* snippet return an empty list instead, the threshold unread. A threshold
\* inside [0,1] never raises.
C10_ValidatedWhenReached ==
    last.op \in QueryOps
       => /\ (~InUnit(last.args.similarity_threshold) /\ ReachesConversion)
                => (last.err = "ValueError" /\ result = <<>>)
          /\ (~InUnit(last.args.similarity_threshold) /\ ~ReachesConversion)
                => (last.err = "none" /\ result = <<>>)
          /\ InUnit(last.args.similarity_threshold) => last.err = "none"

\* A lookup by location found its snippet and then refused the threshold.
C10_Witness ==
    /\ last.op = "find_clones_by_location"
    /\ last.err = "ValueError"
    /\ get_snippet_by_location(metadata, last.args.file_path, last.args.line_number).some

\* The match lists a query call returned: the one list of find_clones and
\* find_clones_by_location, the lists of find_clones_batch.
ReturnedLists ==
    IF last.op \notin QueryOps \/ last.err # "none" THEN {}
    ELSE IF last.op = "find_clones_batch" THEN Range(result)
    ELSE {result}

\* C11: every match a query entry point returns carries a similarity in [0,1]
\* that is not below the threshold of the call.
C11_SimilarityWithinBounds ==
    \A clones \in ReturnedLists : \A i \in 1..Len(clones) :
        /\ 0 <= clones[i].similarity
        /\ clones[i].similarity <= D
        /\ clones[i].similarity >= last.args.similarity_threshold

\* find_clones with threshold 0.9 returned a match that is not a perfect one.
C11_Witness ==
    /\ last.op = "find_clones" /\ last.err = "none"
    /\ last.args.similarity_threshold = (9 * D) \div 10
    /\ \E i \in 1..Len(result) : result[i].similarity < D

\* The hits the index reported to the find_clones call just answered, in the
\* order range_search reported them.
LastHits ==
    search_hits(index, normalize_L2(embed_single(last.args.query_code)),
                cosine_to_l2_threshold(last.args.similarity_threshold))

\* A hit hydration has to keep: it has a metadata row and is not filtered out as
\* a self-match.
Kept(h, exclude_self) ==
    h.id \in DOMAIN metadata /\ ~(exclude_self /\ IsSelfMatch(h.similarity))

\* C12: a hit whose id has no metadata row is dropped and the query succeeds:
\* find_clones (no max_results) raises nothing and returns one CloneMatch, with
\* the row's fields and the hit's similarity, for every other hit that has a row
\* and passes the self-match filter, and nothing else.
C12_MissingMetadataDropped ==
    (/\ last.op = "find_clones" /\ InUnit(last.args.similarity_threshold)
     /\ ~last.args.max_results.some)
       => LET keep == {i \in 1..Len(LastHits) : Kept(LastHits[i], last.args.exclude_self)}
          IN  /\ last.err = "none"
              /\ Len(result) = Cardinality(keep)
              /\ \A i \in keep : \E j \in 1..Len(result) :
                    result[j] = CloneMatch(metadata[LastHits[i].id], LastHits[i].similarity)
              /\ \A j \in 1..Len(result) : \E i \in keep :
                    result[j] = CloneMatch(metadata[LastHits[i].id], LastHits[i].similarity)

\* The first hit had no metadata row and a later hit was returned.
C12_Witness ==
    /\ last.op = "find_clones" /\ last.err = "none" /\ ~last.args.max_results.some
    /\ Len(LastHits) > 1
    /\ LastHits[1].id \notin DOMAIN metadata
    /\ Len(result) > 0

\* Whether the call just answered ran with exclude_self on: find_clones takes it
\* as an argument, the other two entry points leave it at its default.
ExcludesSelf == IF last.op = "find_clones" THEN last.args.exclude_self ELSE TRUE

\* C13: with exclude_self on no returned match has similarity >= 0.9999; with
\* exclude_self off (find_clones, no max_results) every stored vector identical
\* to the normalized query that has a metadata row and whose cosine similarity
\* meets the threshold is in the result.
C13_SelfMatchExclusion ==
    /\ ExcludesSelf =>
          \A clones \in ReturnedLists : \A j \in 1..Len(clones) :
              ~IsSelfMatch(clones[j].similarity)
    /\ (/\ last.op = "find_clones" /\ last.err = "none"
        /\ ~last.args.exclude_self /\ ~last.args.max_results.some)
          => LET q == normalize_L2(embed_single(last.args.query_code))
             IN  \A i \in 1..ntotal(index) :
                    (/\ index.vecs[i] = q
                     /\ index.ids[i] \in DOMAIN metadata
                     /\ TrueCosine(q, index.vecs[i]) >= last.args.similarity_threshold)
                       => \E j \in 1..Len(result) : result[j].snippet_id = index.ids[i]

\* C14: every match list returned (the list of find_clones and of
\* find_clones_by_location, each list of find_clones_batch) is in non-increasing
\* order of similarity.
C14_SortedDescending ==
    \A clones \in ReturnedLists : \A i, j \in 1..Len(clones) :
        i < j => clones[i].similarity >= clones[j].similarity

\* Two matches of different similarity came back in the order opposite to the
\* order in which they are stored.
C14_Witness ==
    /\ last.op \in {"find_clones", "find_clones_batch"} /\ last.err = "none"
    /\ \E clones \in ReturnedLists :
          /\ Len(clones) = 2
          /\ clones[1].snippet_id > clones[2].snippet_id
          /\ clones[1].similarity > clones[2].similarity

\* C15: in every returned match list, matches of equal similarity are in
\* ascending order of snippet id.
C15_TiesByAscendingId ==
    \A clones \in ReturnedLists : \A i, j \in 1..Len(clones) :
        (i < j /\ clones[i].similarity = clones[j].similarity)
           => clones[i].snippet_id <= clones[j].snippet_id

\* What the find_clones call just answered returns with max_results unset.
FullList ==
    find_clones(index, metadata, last.args.query_code, last.args.similarity_threshold,
                None, last.args.exclude_self).ret

\* C16: with max_results set to k >= 0 find_clones returns the first k entries
\* of the full sorted list (all of it when it has fewer), so at most k; with
\* max_results unset it returns the full list.
C16_TruncatedToMaxResults ==
    (last.op = "find_clones" /\ last.err = "none")
       => IF last.args.max_results.some
          THEN LET k == last.args.max_results.val
               IN  /\ Len(result) <= k
                   /\ result = SubSeq(FullList, 1, IF k < Len(FullList) THEN k ELSE Len(FullList))
          ELSE result = FullList

\* C17: find_clones_batch over n texts returns n lists, the i-th being what
\* find_clones returns for the i-th text alone with the same threshold,
\* exclude_self on and no max_results; an empty batch returns an empty list.
C17_BatchEqualsSingles ==
    (last.op = "find_clones_batch" /\ last.err = "none")
       => LET query_codes == last.args.query_codes
          IN  /\ Len(result) = Len(query_codes)
              /\ \A i \in 1..Len(query_codes) :
                    LET single == find_clones(index, metadata, query_codes[i],
                                       last.args.similarity_threshold, None, TRUE)
                    IN  Len(query_codes) > 0 /\ single.err = "none" /\ result[i] = single.ret
              /\ (Len(query_codes) = 0 => result = <<>>)

\* A batch of two texts got two different lists, neither empty.
C17_Witness ==
    /\ last.op = "find_clones_batch" /\ last.err = "none"
    /\ Len(result) = 2
    /\ Len(result[1]) > 0 /\ Len(result[2]) > 0
    /\ result[1] # result[2]

\* The metadata rows whose file and line range contain the location asked for.
RowsAt(file_path, line_number) ==
    {metadata[i] : i \in {k \in DOMAIN metadata :
                             /\ metadata[k].file_path = file_path
                             /\ metadata[k].start_line <= line_number
                             /\ line_number <= metadata[k].end_line}}

\* C18: find_clones_by_location returns [] without raising and without a call
\* to the embedder or the index when no stored snippet contains the location;
\* otherwise it ends as find_clones does on the stored code of a snippet at that
\* location, with the same threshold and max_results.
C18_ByLocationDelegates ==
    last.op = "find_clones_by_location"
       => LET here == RowsAt(last.args.file_path, last.args.line_number)
          IN  IF here = {}
              THEN /\ last.err = "none" /\ result = <<>>
                   /\ last.embeds = 0 /\ last.searches = 0
              ELSE \E row \in here :
                      LET r == find_clones(index, metadata, row.code,
                                           last.args.similarity_threshold,
                                           last.args.max_results, TRUE)
                      IN  last.err = r.err /\ result = r.ret

\* The lookup found its snippet and returned one match of max_results = 1.
C18_Witness ==
    /\ last.op = "find_clones_by_location" /\ last.err = "none"
    /\ last.args.max_results = Some(1)
    /\ Len(result) = 1

\* The write just made to the store: the (snippet_id, snippet) pairs of an
\* add_snippets_batch, the one pair of an add_snippet.
Max(A) == CHOOSE a \in A : \A b \in A : b <= a
WrittenIds(snippets) == {snippets[i].id : i \in 1..Len(snippets)}
WrittenLast(snippets, id) ==
    snippets[Max({i \in 1..Len(snippets) : snippets[i].id = id})].snippet

\* C19: every add_snippet and add_snippets_batch, also one that repeats an id or
\* writes an id written before, leaves one record per distinct id written so far:
\* the ids of the store are the earlier ones and the written ones, count() is
\* their number, get_snippet of a written id returns the record written last for
\* it, and the other records are untouched.
C19_OneRecordPerId ==
    [][last'.op \in {"add_snippet", "add_snippets_batch"}
          => LET snippets == last'.args
                 ids == WrittenIds(snippets)
             IN  /\ DOMAIN metadata' = DOMAIN metadata \cup ids
                 /\ count(metadata') = Cardinality(DOMAIN metadata \cup ids)
                 /\ \A id \in ids :
                       get_snippet(metadata', id) = Some(Row(id, WrittenLast(snippets, id)))
                 /\ \A id \in DOMAIN metadata \ ids :
                       get_snippet(metadata', id) = get_snippet(metadata, id)]_vars

\* A batch wrote one id twice, with different records, over an earlier record,
\* and the store holds the record written last.
C19_Witness ==
    /\ last.op = "add_snippets_batch"
    /\ Len(last.args) = 2
    /\ last.args[1].id = last.args[2].id
    /\ last.args[1].snippet # last.args[2].snippet
    /\ count(metadata) = 2
    /\ metadata[last.args[2].id] = Row(last.args[2].id, last.args[2].snippet)

\* C20: get_snippet_by_location(file, line) returns a record exactly when the
\* store holds one with that file path and start_line <= line <= end_line, and
\* the record it returns is a stored one that satisfies this (a.py lines 1-1 is
\* found at line 1, and at line 2 only another record can be).
C20_LocationLookup ==
    last.op = "get_snippet_by_location"
       => LET found == result[1]
              file_path == last.args.file_path
              line_number == last.args.line_number
          IN  /\ found.some <=> (\E id \in DOMAIN metadata :
                                    /\ metadata[id].file_path = file_path
                                    /\ metadata[id].start_line <= line_number
                                    /\ line_number <= metadata[id].end_line)
              /\ found.some =>
                    /\ found.val.id \in DOMAIN metadata
                    /\ found.val = metadata[found.val.id]
                    /\ found.val.file_path = file_path
                    /\ found.val.start_line <= line_number
                    /\ line_number <= found.val.end_line
              /\ (found.some /\ found.val.start_line = 1 /\ found.val.end_line = 1)
                    => line_number = 1

\* The record a.py 1-1 was found at line 1 in a store of two records.
C20_Witness ==
    /\ last.op = "get_snippet_by_location"
    /\ last.args = [file_path |-> "a.py", line_number |-> 1]
    /\ count(metadata) = 2
    /\ result[1].some
    /\ result[1].val.start_line = 1 /\ result[1].val.end_line = 1

\* C21: get_snippets(ids) returns the stored records whose id occurs in ids, one
\* per distinct id and nothing else; ids without a record are absent and raise
\* nothing, and an empty list gives an empty list.
C21_GetSnippetsExact ==
    last.op = "get_snippets"
       => LET present == Range(last.args) \cap DOMAIN metadata
          IN  /\ last.err = "none"
              /\ Len(result) = Cardinality(present)
              /\ Range(result) = {metadata[id] : id \in present}
              /\ (Len(last.args) = 0 => result = <<>>)

\* A list naming a stored id and an id without a record got the one stored
\* record.
C21_Witness ==
    /\ last.op = "get_snippets"
    /\ Len(last.args) = 2
    /\ Range(last.args) \cap DOMAIN metadata # {}
    /\ Range(last.args) \ DOMAIN metadata # {}
    /\ Len(result) = 1


\* Queries and radii put to the index before a save and after the load.
RoundTripQueries == Range(normalize_rows(Rows))
RoundTripRadii == {0, D \div 5, 4 * D}
\* The builder as the step leaves it.
BuilderAfter == [index |-> index', is_trained |-> is_trained', nprobe |-> nprobe', err |-> "none"]

C23_LoadRestoresConfiguration ==
    [][(last'.op = "load" /\ last'.err = "none" /\ index_type # Unset /\ index = file)
          => /\ get_stats(Builder)'.err = "none"
             /\ \A key \in {"index_type", "nlist", "nbits", "nprobe", "num_vectors"} :
                   get_stats(Builder)'.ret[key] = get_stats(Builder).ret[key]
             /\ \A P \in 1..MaxProbe : set_nprobe(Builder, P)'.err = "none"]_vars


\* C24: set_nprobe(P) leaves a FLAT builder and its index as they were; on a
\* clustered backend, in whatever lifecycle state, it makes P the configured
\* probe count, the probe count of the index if there is one, and the nprobe
\* get_stats reports.
C24_SetNprobeEffect ==
    [][\A P \in 1..MaxProbe : SetNprobe(P) =>
          /\ index_type = FLAT => (index' = index /\ nprobe' = nprobe /\ is_trained' = is_trained)
          /\ Clustered => /\ last'.err = "none"
                          /\ nprobe' = P
                          /\ index'.created => /\ index'.nprobe = P
                                               /\ get_stats(Builder)'.ret.nprobe = Some(P)]_vars


\* C25: constructing a builder, or validating an IndexConfig, fails exactly
\* when the backend is IVF_PQ and m does not divide dimension.
C25_RejectsOnlyQuantizedMisfit ==
    last.op \in {"__init__", "IndexConfig"} /\ "args" \in DOMAIN last
       => (last.err = "ValueError"
              <=> (last.args.index_type = IVF_PQ /\ last.args.dimension % last.args.m # 0))


\* C26: after train, add, find_clones or find_clones_batch, whether the call
\* returned or raised, the array the caller handed over (for the queries, the
\* array the embedder returned) holds the values it held before the call.
C26_CallerBuffersUntouched ==
    "buffers" \in DOMAIN last => last.buffers[1] = last.args
\* train and add each normalized rows of a non-empty batch, in an array of
\* their own; a failed train did so too.
C26_Witness ==
    /\ "buffers" \in DOMAIN last
    /\ last.op \in {"train", "add"}
    /\ Len(last.args) > 0
    /\ Len(last.buffers) > 1
    /\ last.buffers[Len(last.buffers)] # last.args


\* C28: whenever the builder's is_trained is True there is an index, and that
\* index is trained itself or is the FLAT backend; so an add that passes the
\* builder's trained check never meets a missing or untrained index.
C28_TrainedFlagSound ==
    is_trained => /\ index.created
                  /\ index.is_trained \/ index.kind = FLAT

\* C29: on a clustered backend, once the index exists, the probe count the
\* index searches with is the configured one (the constructor's nprobe or the
\* last set_nprobe), and it is the nprobe get_stats reports.
C29_ProbeCountApplied ==
    (Clustered /\ index.created)
       => /\ index.nprobe = nprobe
          /\ get_stats(Builder).ret.nprobe = Some(index.nprobe)


\* C30: whatever the interleaving of health_check and detect_clones requests,
\* the embedder changes only from unset to set, by a thread that holds
\* embedder_lock and is at the construction, so it is set at most once and
\* never replaced or reset; and health_check answers healthy only while the
\* embedder is set.
C30_EmbedderInitializedOnce ==
    [][/\ embedder' # embedder
             => /\ embedder = None
                /\ embedder_lock # 0
                /\ pc[embedder_lock].at = "construct"
                /\ embedder' = Some(embedder_lock)
       /\ (last' # last /\ last'.op = "health_check" /\ last'.status = "healthy")
             => embedder' # None]_vars
\* One thread has set the embedder while another, which had found it unset
\* at its first test, holds the lock and is at the second test.
C30_Witness ==
    \E t \in Threads : /\ pc[t].at = "recheck"
                       /\ embedder # None
                       /\ embedder.val # t


\* C27: on a shared index, while one thread is inside train, add or set_nprobe
\* no other thread is inside a mutation, a range_search or a get_stats.
C27_WriterLockSerializes ==
    \A t \in Threads : \A u \in Threads \ {t} :
        pc[t].op \in Mutations => pc[u].op \notin Mutations \cup Reads
====
